---------------------------- MODULE Spec2Model ----------------------------
(***************************************************************************)
(* A model of src/main.rs: reading ./dogs.json, deserializing it into a    *)
(* Vec<Dog>, and reporting the outcome, with the three variants get_dogs1, *)
(* get_dogs2 and get_dogs3 of the error propagation.                       *)
(*                                                                         *)
(* File content is modelled after lexing, as a sequence of JSON tokens:    *)
(* punctuation, string literals (carrying their text), a number literal,   *)
(* and a character that starts no JSON token.  Whitespace and the escape   *)
(* sequences inside string literals are below this model.                  *)
(***************************************************************************)
EXTENDS Naturals, Sequences, FiniteSets

\* Largest number of elements of a generated array.
MaxDogs == 2
\* Largest number of members of a generated JSON object (and of values of a
\* generated inner array).
MaxMembers == 3

---------------------------------------------------------------------------
(* JSON tokens *)

P(c) == [k |-> "p", v |-> c]
S(s) == [k |-> "str", v |-> s]
N == [k |-> "num", v |-> "1"]
Bad == [k |-> "bad", v |-> "?"]
EOF == [k |-> "eof", v |-> ""]

Peek(t, i) == IF i > Len(t) THEN EOF ELSE t[i]
IsP(tok, c) == tok.k = "p" /\ tok.v = c
\* The tokens that start a JSON value (serde_json's peek_invalid_type tells
\* these, a value of the wrong type, from a syntax error).
StartsValue(tok) == tok.k \in {"str", "num"} \/ IsP(tok, "[") \/ IsP(tok, "{")

\* The text of the dogs' names and breeds, of the member names, and so of
\* every string literal of the model.
Names == {"a", "b"}
Keys == {"name", "breed", "age"}
Text == Names \cup Keys

---------------------------------------------------------------------------
(* Errors *)

\* std::io::Error, by its ErrorKind.
IoError(kind) == [type |-> "io", code |-> kind, at |-> 0]
\* serde_json::Error, by its code and the place it was raised at.
JsonError(code, at) == [type |-> "json", code |-> code, at |-> at]

Good(val, pos) == [ok |-> TRUE, val |-> val, pos |-> pos]
Fail(code, at) == [ok |-> FALSE, err |-> JsonError(code, at)]

---------------------------------------------------------------------------
(* The Dog struct and its derived Serialize *)

Dog(name, breed) == [name |-> name, breed |-> breed]

RECURSIVE Join(_)
\* The token sequences of `parts` with a comma between each two.
Join(parts) ==
    IF Len(parts) = 0 THEN <<>>
    ELSE IF Len(parts) = 1 THEN parts[1]
    ELSE parts[1] \o <<P(",")>> \o Join(Tail(parts))

\* A serializer that writes the breed under "name" and the name under "breed".
Dog_serialize_Swapped(dog) ==
    <<P("{"), S("name"), P(":"), S(dog.breed), P(","),
      S("breed"), P(":"), S(dog.name), P("}")>>

Dog_serialize(dog) ==
    <<P("{"), S("name"), P(":"), S(dog.name), P(","),
      S("breed"), P(":"), S(dog.breed), P("}")>>

\* serde_json::to_string(&Vec<Dog>)
to_string(dogs) ==
    <<P("[")>> \o Join([i \in 1..Len(dogs) |-> Dog_serialize(dogs[i])]) \o <<P("]")>>

---------------------------------------------------------------------------
(* JSON syntax: a value of any type, as serde_json reads one it ignores *)

Scalar(tok) == [k |-> tok.k, v |-> tok.v, keys |-> <<>>, items |-> <<>>]
Arr(items) == [k |-> "arr", v |-> "", keys |-> <<>>, items |-> items]
Obj(keys, items) == [k |-> "obj", v |-> "", keys |-> keys, items |-> items]

RECURSIVE ReadValue(_, _), ReadItems(_, _, _, _), ReadMembers(_, _, _, _, _)
\* The JSON value that starts at token i of t.
ReadValue(t, i) ==
    LET tok == Peek(t, i) IN
    IF tok.k = "eof" THEN Fail("EofWhileParsingValue", i)
    ELSE IF tok.k \in {"str", "num"} THEN Good(Scalar(tok), i + 1)
    ELSE IF IsP(tok, "[") THEN ReadItems(t, i + 1, <<>>, TRUE)
    ELSE IF IsP(tok, "{") THEN ReadMembers(t, i + 1, <<>>, <<>>, TRUE)
    ELSE Fail("ExpectedSomeValue", i)

\* The rest of an array, from token i, after the items `acc`.
ReadItems(t, i, acc, first) ==
    LET tok == Peek(t, i)
        at == IF first THEN i ELSE i + 1
        item == ReadValue(t, at)
    IN
    IF tok.k = "eof" THEN Fail("EofWhileParsingList", i)
    ELSE IF IsP(tok, "]") THEN Good(Arr(acc), i + 1)
    ELSE IF ~first /\ ~IsP(tok, ",") THEN Fail("ExpectedListCommaOrEnd", i)
    ELSE IF ~first /\ IsP(Peek(t, at), "]") THEN Fail("TrailingComma", at)
    ELSE IF ~item.ok THEN item
    ELSE ReadItems(t, item.pos, Append(acc, item.val), FALSE)

\* The rest of an object, from token i, after the members keys[j]: items[j].
ReadMembers(t, i, keys, items, first) ==
    LET tok == Peek(t, i)
        at == IF first THEN i ELSE i + 1
        key == Peek(t, at)
        colon == Peek(t, at + 1)
        item == ReadValue(t, at + 2)
    IN
    IF tok.k = "eof" THEN Fail("EofWhileParsingObject", i)
    ELSE IF IsP(tok, "}") THEN Good(Obj(keys, items), i + 1)
    ELSE IF ~first /\ ~IsP(tok, ",") THEN Fail("ExpectedObjectCommaOrEnd", i)
    ELSE IF key.k = "eof" THEN Fail("EofWhileParsingValue", at)
    ELSE IF IsP(key, "}") THEN Fail("TrailingComma", at)
    ELSE IF key.k # "str" THEN Fail("KeyMustBeAString", at)
    ELSE IF colon.k = "eof" THEN Fail("EofWhileParsingObject", at + 1)
    ELSE IF ~IsP(colon, ":") THEN Fail("ExpectedColon", at + 1)
    ELSE IF ~item.ok THEN item
    ELSE ReadMembers(t, item.pos, Append(keys, key.v), Append(items, item.val), FALSE)

\* Deserializer::ignore_value: the value of a member that is no field of Dog
\* is read for its syntax and dropped.
ignore_value(t, i) ==
    LET r == ReadValue(t, i) IN IF r.ok THEN Good("", r.pos) ELSE r

---------------------------------------------------------------------------
(* The derived Deserialize of Dog, and Vec<Dog>, driven over the tokens *)

\* A String that takes a number for its text.
String_deserialize_Lenient(t, i) ==
    LET tok == Peek(t, i) IN
    IF tok.k = "eof" THEN Fail("EofWhileParsingValue", i)
    ELSE IF tok.k \in {"str", "num"} THEN Good(tok.v, i + 1)
    ELSE IF StartsValue(tok) THEN Fail("InvalidType", i)
    ELSE Fail("ExpectedSomeValue", i)

\* Deserialize for String: a string literal and nothing else.
String_deserialize(t, i) ==
    LET tok == Peek(t, i) IN
    IF tok.k = "eof" THEN Fail("EofWhileParsingValue", i)
    ELSE IF tok.k = "str" THEN Good(tok.v, i + 1)
    ELSE IF StartsValue(tok) THEN Fail("InvalidType", i)
    ELSE Fail("ExpectedSomeValue", i)

None == [some |-> FALSE, v |-> ""]
Some(v) == [some |-> TRUE, v |-> v]

\* A field visitor that takes each of the two fields for the other.
Dog_field_Swapped(key) ==
    CASE key = "name" -> "breed"
      [] key = "breed" -> "name"
      [] OTHER -> "ignore"

\* The derived field visitor: the field of Dog a member name stands for.
Dog_field(key) ==
    CASE key = "name" -> "name"
      [] key = "breed" -> "breed"
      [] OTHER -> "ignore"

RECURSIVE Dog_visit_map(_, _, _, _, _)
\* The derived visitor's visit_map: the members of a JSON object from token
\* i, with the fields read so far; ends on the closing brace.
Dog_visit_map(t, i, name, breed, first) ==
    LET tok == Peek(t, i)
        at == IF first THEN i ELSE i + 1
        key == Peek(t, at)
        colon == Peek(t, at + 1)
        which == Dog_field(key.v)
        field == String_deserialize(t, at + 2)
        other == ignore_value(t, at + 2)
    IN
    IF tok.k = "eof" THEN Fail("EofWhileParsingObject", i)
    ELSE IF IsP(tok, "}") THEN
        IF ~name.some THEN Fail("MissingField_name", i)
        ELSE IF ~breed.some THEN Fail("MissingField_breed", i)
        ELSE Good(Dog(name.v, breed.v), i + 1)
    ELSE IF ~first /\ ~IsP(tok, ",") THEN Fail("ExpectedObjectCommaOrEnd", i)
    ELSE IF key.k = "eof" THEN Fail("EofWhileParsingValue", at)
    ELSE IF IsP(key, "}") THEN Fail("TrailingComma", at)
    ELSE IF key.k # "str" THEN Fail("KeyMustBeAString", at)
    ELSE IF which = "name" /\ name.some THEN Fail("DuplicateField_name", at + 1)
    ELSE IF which = "breed" /\ breed.some THEN Fail("DuplicateField_breed", at + 1)
    ELSE IF colon.k = "eof" THEN Fail("EofWhileParsingObject", at + 1)
    ELSE IF ~IsP(colon, ":") THEN Fail("ExpectedColon", at + 1)
    ELSE IF which = "name" THEN
        IF ~field.ok THEN field
        ELSE Dog_visit_map(t, field.pos, Some(field.val), breed, FALSE)
    ELSE IF which = "breed" THEN
        IF ~field.ok THEN field
        ELSE Dog_visit_map(t, field.pos, name, Some(field.val), FALSE)
    ELSE
        IF ~other.ok THEN other
        ELSE Dog_visit_map(t, other.pos, name, breed, FALSE)

\* SeqAccess::next_element_seed for a String element at token i.
String_next_element(t, i, first, missing) ==
    LET tok == Peek(t, i)
        at == IF first THEN i ELSE i + 1
    IN
    IF tok.k = "eof" THEN Fail("EofWhileParsingList", i)
    ELSE IF IsP(tok, "]") THEN Fail(missing, i)
    ELSE IF ~first /\ ~IsP(tok, ",") THEN Fail("ExpectedListCommaOrEnd", i)
    ELSE IF ~first /\ IsP(Peek(t, at), "]") THEN Fail("TrailingComma", at)
    ELSE String_deserialize(t, at)

\* Deserializer::end_seq after a visitor that read a fixed number of elements.
end_seq(t, i, val) ==
    LET tok == Peek(t, i) IN
    IF tok.k = "eof" THEN Fail("EofWhileParsingList", i)
    ELSE IF IsP(tok, "]") THEN Good(val, i + 1)
    ELSE IF IsP(tok, ",") /\ IsP(Peek(t, i + 1), "]") THEN Fail("TrailingComma", i + 1)
    ELSE Fail("TrailingCharacters", i)

\* The derived visitor's visit_seq: a Dog written as the array [name, breed].
Dog_visit_seq(t, i) ==
    LET name == String_next_element(t, i, TRUE, "InvalidLength_0")
        breed == String_next_element(t, name.pos, FALSE, "InvalidLength_1")
    IN
    IF ~name.ok THEN name
    ELSE IF ~breed.ok THEN breed
    ELSE end_seq(t, breed.pos, Dog(name.val, breed.val))

\* Deserializer::deserialize_struct for Dog: a JSON object or a JSON array.
Dog_deserialize(t, i) ==
    LET tok == Peek(t, i) IN
    IF tok.k = "eof" THEN Fail("EofWhileParsingValue", i)
    ELSE IF IsP(tok, "[") THEN Dog_visit_seq(t, i + 1)
    ELSE IF IsP(tok, "{") THEN Dog_visit_map(t, i + 1, None, None, TRUE)
    ELSE IF StartsValue(tok) THEN Fail("InvalidType", i)
    ELSE Fail("ExpectedSomeValue", i)

RECURSIVE Vec_visit_seq(_, _, _, _)
\* Vec<Dog>'s visitor: elements from token i until the closing bracket.
Vec_visit_seq(t, i, acc, first) ==
    LET tok == Peek(t, i)
        at == IF first THEN i ELSE i + 1
        dog == Dog_deserialize(t, at)
    IN
    IF tok.k = "eof" THEN Fail("EofWhileParsingList", i)
    ELSE IF IsP(tok, "]") THEN Good(acc, i + 1)
    ELSE IF ~first /\ ~IsP(tok, ",") THEN Fail("ExpectedListCommaOrEnd", i)
    ELSE IF ~first /\ IsP(Peek(t, at), "]") THEN Fail("TrailingComma", at)
    ELSE IF ~dog.ok THEN dog
    ELSE Vec_visit_seq(t, dog.pos, Append(acc, dog.val), FALSE)

\* Deserializer::deserialize_seq for Vec<Dog>: a JSON array and nothing else.
Vec_deserialize(t, i) ==
    LET tok == Peek(t, i) IN
    IF tok.k = "eof" THEN Fail("EofWhileParsingValue", i)
    ELSE IF IsP(tok, "[") THEN Vec_visit_seq(t, i + 1, <<>>, TRUE)
    ELSE IF StartsValue(tok) THEN Fail("InvalidType", i)
    ELSE Fail("ExpectedSomeValue", i)

\* A from_str that does not look past the value (a stream deserializer's
\* first value).
from_str_First(json) == Vec_deserialize(json, 1)

\* serde_json::from_str::<Vec<Dog>>: the value, then nothing but the end.
from_str(json) ==
    LET r == Vec_deserialize(json, 1) IN
    IF ~r.ok THEN r
    ELSE IF Peek(json, r.pos).k # "eof" THEN Fail("TrailingCharacters", r.pos)
    ELSE r

---------------------------------------------------------------------------
(* GetDogsError and the three versions of get_dogs *)

BadFile(e) == [tag |-> "BadFile", e |-> e]
BadJson(e) == [tag |-> "BadJson", e |-> e]

\* A source that is implemented for the file-read failure only.
source_FileOnly(self) ==
    CASE self.tag = "BadFile" -> Some(self.e)
      [] self.tag = "BadJson" -> None

\* Error::source: the wrapped error.
source(self) ==
    CASE self.tag = "BadFile" -> Some(self.e)
      [] self.tag = "BadJson" -> Some(self.e)

\* Display::fmt: the message, as its prefix and the wrapped error it renders.
fmt(self) ==
    CASE self.tag = "BadFile" -> [prefix |-> "bad file: ", detail |-> self.e]
      [] self.tag = "BadJson" -> [prefix |-> "bad JSON: ", detail |-> self.e]

\* A conversion to the wrong variant.
From_io_BadJson(other) == BadJson(other)

From_io(other) == BadFile(other)
From_json(other) == BadJson(other)

\* What `?` makes of an error in get_dogs1: From<E: Error> for Box<dyn Error>.
Box(e) == [boxed |-> e]
\* Box<dyn Error>::downcast_ref::<E>, E named by its type.
downcast_ref(b, type) == IF b.boxed.type = type THEN Some(b.boxed) ELSE None

Ok(val) == [tag |-> "Ok", val |-> val]
Err(err) == [tag |-> "Err", err |-> err]

\* std::fs::read_to_string of a file in state f.
read_to_string(f) ==
    IF f.kind = "File" THEN [ok |-> TRUE, val |-> f.content]
    ELSE [ok |-> FALSE, err |-> IoError(f.kind)]

\* A get_dogs1 that takes unparsable JSON for no dogs (unwrap_or_default).
get_dogs1_Default(f) ==
    LET json == read_to_string(f)
        dogs == from_str(json.val)
    IN
    IF ~json.ok THEN Err(Box(json.err))
    ELSE IF ~dogs.ok THEN Ok(<<>>)
    ELSE Ok(dogs.val)

get_dogs1(f) ==
    LET json == read_to_string(f)
        dogs == from_str(json.val)
    IN
    IF ~json.ok THEN Err(Box(json.err))
    ELSE IF ~dogs.ok THEN Err(Box(dogs.err))
    ELSE Ok(dogs.val)

\* A get_dogs2 with the variants in each other's arm.
get_dogs2_Crossed(f) ==
    LET json == read_to_string(f)
        dogs == from_str(json.val)
    IN
    IF json.ok THEN
        IF dogs.ok THEN Ok(dogs.val) ELSE Err(BadFile(dogs.err))
    ELSE Err(BadJson(json.err))

get_dogs2(f) ==
    LET json == read_to_string(f)
        dogs == from_str(json.val)
    IN
    IF json.ok THEN
        IF dogs.ok THEN Ok(dogs.val) ELSE Err(BadJson(dogs.err))
    ELSE Err(BadFile(json.err))

get_dogs3(f) ==
    LET json == read_to_string(f)
        dogs == from_str(json.val)
    IN
    IF ~json.ok THEN Err(From_io(json.err))
    ELSE IF ~dogs.ok THEN Err(From_json(dogs.err))
    ELSE Ok(dogs.val)

---------------------------------------------------------------------------
(* The states ./dogs.json can be in when main runs *)

SeqsUpTo(set, n) == UNION {[1..m -> set] : m \in 0..n}
Bracket(open, parts, close) == <<P(open)>> \o Join(parts) \o <<P(close)>>

Vals == {S(n) : n \in Names} \cup {N}
\* The members of generated objects: a name or a breed of any value, and a
\* member that is no field of Dog.
Members ==
    {<<S(k), P(":"), v>> : k \in {"name", "breed"}, v \in Vals} \cup {<<S("age"), P(":"), N>>}
Objects == {Bracket("{", ms, "}") : ms \in SeqsUpTo(Members, MaxMembers)}
Arrays ==
    {Bracket("[", [i \in 1..Len(vs) |-> <<vs[i]>>], "]") : vs \in SeqsUpTo(Vals, MaxMembers)}
Elements == Objects \cup Arrays \cup {<<v>> : v \in Vals}

\* The collections of dogs, and the files serde_json::to_string writes of them.
Collections == SeqsUpTo([name : Names, breed : Names], MaxDogs)
Serialized == {to_string(dogs) : dogs \in Collections}

\* Arrays of serialized dogs with any one element in its place.
Rex == Dog("a", "b")
OddPlaces == {np \in (1..MaxDogs) \X (1..MaxDogs) : np[2] <= np[1]}
OddOneOut ==
    {Bracket("[", [i \in 1..x[1][1] |-> IF i = x[1][2] THEN x[2] ELSE Dog_serialize(Rex)], "]")
        : x \in OddPlaces \X Elements}

\* The serialized files of Rex alone and with others like him, cut short,
\* and with one token overwritten.
Kennels == {to_string([i \in 1..n |-> Rex]) : n \in 0..MaxDogs}
Alphabet == {P(c) : c \in {"[", "]", "{", "}", ",", ":"}} \cup {S("name"), S("a"), N, Bad}
Truncated == UNION {{SubSeq(t, 1, k) : k \in 0..(Len(t) - 1)} : t \in Kennels}
Overwritten ==
    UNION {{[t EXCEPT ![i] = tok] : i \in 1..Len(t), tok \in Alphabet} : t \in Kennels}

Contents == Serialized \cup OddOneOut \cup Elements \cup Truncated \cup Overwritten

\* The state of the path: a readable file of some content, or one that
\* read_to_string fails on (however good its content is).
Unreadable == {"NotFound", "PermissionDenied", "InvalidData"}
Files ==
    {[kind |-> "File", content |-> c] : c \in Contents}
    \cup {[kind |-> "NotFound", content |-> <<>>]}
    \cup {[kind |-> k, content |-> c] :
            k \in {"PermissionDenied", "InvalidData"}, c \in Serialized \cup Truncated}

---------------------------------------------------------------------------
(* main *)

VARIABLES
    file,       \* the state of ./dogs.json
    pc,         \* where main is
    json,       \* get_dogs3's local: the text read
    result,     \* what get_dogs3 returns to main
    stdout,     \* the lines printed
    stderr,     \* the lines printed to standard error
    reads,      \* the calls of read_to_string so far
    parses      \* the calls of serde_json::from_str so far

vars == <<file, pc, json, result, stdout, stderr, reads, parses>>

NoResult == [tag |-> "None"]

Init ==
    /\ file \in Files
    /\ pc = "start"
    /\ json = <<>>
    /\ result = NoResult
    /\ stdout = <<>>
    /\ stderr = <<>>
    /\ reads = 0
    /\ parses = 0

\* The guards of main's steps.
CanReadOk == pc = "start" /\ read_to_string(file).ok
CanReadErr == pc = "start" /\ ~read_to_string(file).ok
CanParseOk == pc = "parse" /\ from_str(json).ok
CanParseErr == pc = "parse" /\ ~from_str(json).ok
CanReportDogs == pc = "report" /\ result.tag = "Ok"
CanReportBadFile == pc = "report" /\ result.tag = "Err" /\ result.err.tag = "BadFile"
CanReportBadJson == pc = "report" /\ result.tag = "Err" /\ result.err.tag = "BadJson"

\* get_dogs3, line 103: read_to_string(file_path)? succeeds.
ReadOk ==
    /\ CanReadOk
    /\ json' = read_to_string(file).val
    /\ reads' = reads + 1
    /\ pc' = "parse"
    /\ UNCHANGED <<file, result, stdout, stderr, parses>>

\* get_dogs3, line 103: read_to_string(file_path)? fails and returns early.
ReadErr ==
    /\ CanReadErr
    /\ result' = Err(From_io(read_to_string(file).err))
    /\ reads' = reads + 1
    /\ pc' = "report"
    /\ UNCHANGED <<file, json, stdout, stderr, parses>>

\* get_dogs3, lines 104-105: from_str(&json)? succeeds, Ok(dogs).
ParseOk ==
    /\ CanParseOk
    /\ result' = Ok(from_str(json).val)
    /\ parses' = parses + 1
    /\ pc' = "report"
    /\ UNCHANGED <<file, json, stdout, stderr, reads>>

\* A get_dogs3 that reads the file again when its JSON does not parse.
ParseErr_Retry ==
    /\ CanParseErr
    /\ parses' = parses + 1
    /\ pc' = "start"
    /\ UNCHANGED <<file, json, result, stdout, stderr, reads>>

\* get_dogs3, line 104: from_str(&json)? fails and returns early.
ParseErr ==
    /\ CanParseErr
    /\ result' = Err(From_json(from_str(json).err))
    /\ parses' = parses + 1
    /\ pc' = "report"
    /\ UNCHANGED <<file, json, stdout, stderr, reads>>

\* main, line 142: println!("{:?}", dogs).
ReportDogs ==
    /\ CanReportDogs
    /\ stdout' = Append(stdout, result.val)
    /\ pc' = "done"
    /\ UNCHANGED <<file, json, result, stderr, reads, parses>>

\* main, line 143: eprintln!("bad file: {}", e).
ReportBadFile ==
    /\ CanReportBadFile
    /\ stderr' = Append(stderr, [prefix |-> "bad file: ", detail |-> result.err.e])
    /\ pc' = "done"
    /\ UNCHANGED <<file, json, result, stdout, reads, parses>>

\* main, line 144: eprintln!("bad json: {}", e).
ReportBadJson ==
    /\ CanReportBadJson
    /\ stderr' = Append(stderr, [prefix |-> "bad json: ", detail |-> result.err.e])
    /\ pc' = "done"
    /\ UNCHANGED <<file, json, result, stdout, reads, parses>>

Next ==
    \/ ReadOk
    \/ ReadErr
    \/ ParseOk
    \/ ParseErr
    \/ ReportDogs
    \/ ReportBadFile
    \/ ReportBadJson

Spec == Init /\ [][Next]_vars

---------------------------------------------------------------------------
(* What the claims speak of: the JSON document a text is, and its shape *)

Malformed == [k |-> "malformed", v |-> "", keys |-> <<>>, items |-> <<>>]
\* The JSON document `text` is, when it is exactly one JSON value.
Document(text) ==
    LET r == ReadValue(text, 1) IN
    IF r.ok /\ r.pos = Len(text) + 1 THEN r.val ELSE Malformed

Places(o, key) == {j \in 1..Len(o.keys) : o.keys[j] = key}
HasStringField(o, key) == \E j \in Places(o, key) : o.items[j].k = "str"
\* An object with string fields name and breed.
IsDogObject(e) ==
    e.k = "obj" /\ HasStringField(e, "name") /\ HasStringField(e, "breed")
\* Such an object with no second name and no second breed.
IsPlainDogObject(e) ==
    /\ IsDogObject(e)
    /\ Cardinality(Places(e, "name")) = 1
    /\ Cardinality(Places(e, "breed")) = 1
\* The array [name, breed] of two strings.
IsDogPair(e) ==
    e.k = "arr" /\ Len(e.items) = 2 /\ e.items[1].k = "str" /\ e.items[2].k = "str"
FieldOf(e, key) == e.items[CHOOSE j \in Places(e, key) : TRUE].v

Elems(d) == {d.items[i] : i \in 1..Len(d.items)}
\* A JSON array of objects with string fields name and breed.
IsDogObjectArray(d) == d.k = "arr" /\ \A e \in Elems(d) : IsDogObject(e)
IsPlainDogObjectArray(d) == d.k = "arr" /\ \A e \in Elems(d) : IsPlainDogObject(e)
IsDogObjectOrPairArray(d) ==
    d.k = "arr" /\ \A e \in Elems(d) : IsDogObject(e) \/ IsDogPair(e)

\* An element that lacks a field, or has a value for it that is no string.
Lacks(e, key) == e.k # "obj" \/ Places(e, key) = {}
HasNonString(e, key) == e.k = "obj" /\ \E j \in Places(e, key) : e.items[j].k # "str"
Defective(e) ==
    \/ Lacks(e, "name") \/ Lacks(e, "breed")
    \/ HasNonString(e, "name") \/ HasNonString(e, "breed")

Readable == file.kind = "File"
Returned == pc \in {"report", "done"}
IsErr(r, tag) == r.tag = "Err" /\ r.err.tag = tag

---------------------------------------------------------------------------
(* The claims *)

\* C1: whenever the read of the file fails, get_dogs2 and get_dogs3 return
\* the file-read failure BadFile, never BadJson, whatever the content is;
\* main's call has then made no parse at all.
C1_ReadFailureIsBadFile ==
    ~Readable =>
        /\ IsErr(get_dogs2(file), "BadFile")
        /\ IsErr(get_dogs3(file), "BadFile")
        /\ parses = 0
        /\ Returned => IsErr(result, "BadFile")

\* A file that cannot be read though what it holds is no JSON, after the call.
C1_Witness ==
    /\ pc = "done"
    /\ file.kind = "PermissionDenied"
    /\ ~from_str(file.content).ok
    /\ IsErr(result, "BadFile")

\* C2 as stated: a file that is read but whose content is not a JSON array of
\* {name, breed} objects makes get_dogs2 and get_dogs3 return BadJson.
C2_NotDogObjectsIsBadJson ==
    (Returned /\ Readable /\ ~IsDogObjectArray(Document(file.content))) =>
        /\ IsErr(get_dogs2(file), "BadJson")
        /\ IsErr(get_dogs3(file), "BadJson")
        /\ IsErr(result, "BadJson")

\* C2 amended: a file that is read but whose content is not a JSON array of
\* elements that are each a {name, breed} object or a [name, breed] array of
\* two strings makes get_dogs2 and get_dogs3 return BadJson.
C2_NotDogsIsBadJson ==
    (Readable /\ ~IsDogObjectOrPairArray(Document(file.content))) =>
        /\ IsErr(get_dogs2(file), "BadJson")
        /\ IsErr(get_dogs3(file), "BadJson")
        /\ Returned => IsErr(result, "BadJson")

\* A serialized file cut short, read and reported as BadJson.
C2_Witness ==
    /\ pc = "done"
    /\ Readable
    /\ file.content \in Truncated
    /\ Len(file.content) > 5
    /\ Document(file.content) = Malformed
    /\ IsErr(result, "BadJson")

\* C3 as stated: a readable file holding a JSON array of objects with string
\* fields name and breed yields Ok with as many records as elements, the i-th
\* with a name and a breed of the i-th object.
C3_DogObjectsParse ==
    LET d == Document(file.content)
        r == get_dogs3(file)
    IN
    (Returned /\ Readable /\ IsDogObjectArray(d)) =>
        /\ r = result
        /\ r.tag = "Ok"
        /\ Len(r.val) = Len(d.items)
        /\ \A i \in 1..Len(d.items) :
              /\ \E j \in Places(d.items[i], "name") : r.val[i].name = d.items[i].items[j].v
              /\ \E j \in Places(d.items[i], "breed") : r.val[i].breed = d.items[i].items[j].v

\* C3 amended: a readable file holding a JSON array of objects that each have
\* exactly one name and exactly one breed, both strings, yields Ok with as
\* many records as elements, the i-th with the name and breed of the i-th
\* object; so from each get_dogs, and so to main.
C3_PlainDogObjectsParse ==
    LET d == Document(file.content)
        want == [i \in 1..Len(d.items) |->
                    [name |-> FieldOf(d.items[i], "name"),
                     breed |-> FieldOf(d.items[i], "breed")]]
    IN
    (Readable /\ IsPlainDogObjectArray(d)) =>
        /\ get_dogs1(file) = [tag |-> "Ok", val |-> want]
        /\ get_dogs2(file) = [tag |-> "Ok", val |-> want]
        /\ get_dogs3(file) = [tag |-> "Ok", val |-> want]
        /\ Returned => result = [tag |-> "Ok", val |-> want]

\* Two different dogs, the second with its members out of order and a member
\* that is no field, parsed and printed.
C3_Witness ==
    LET d == Document(file.content) IN
    /\ pc = "done"
    /\ IsPlainDogObjectArray(d)
    /\ Len(d.items) = 2
    /\ d.items[2].keys = <<"breed", "age", "name">>
    /\ result.tag = "Ok"
    /\ result.val[1] # result.val[2]
    /\ stdout = <<result.val>>

\* C4: every collection of dogs, serialized to JSON and parsed back, comes
\* back Ok and equal to the original.
C4_RoundTrip ==
    (Readable /\ file.content \in Serialized) =>
        \A dogs \in Collections :
            file.content = to_string(dogs) =>
                /\ from_str(to_string(dogs)) =
                      [ok |-> TRUE, val |-> dogs, pos |-> Len(file.content) + 1]
                /\ get_dogs3(file) = [tag |-> "Ok", val |-> dogs]
                /\ Returned => result = [tag |-> "Ok", val |-> dogs]

\* A serialized collection of two different dogs, parsed back.
C4_Witness ==
    /\ pc = "done"
    /\ Readable
    /\ file.content = to_string(<<[name |-> "a", breed |-> "b"], [name |-> "b", breed |-> "a"]>>)
    /\ stdout = <<(<<[name |-> "a", breed |-> "b"], [name |-> "b", breed |-> "a"]>>)>>

\* C5: what main prints to standard error starts with "bad file: " for a
\* file-read failure and with "bad JSON: " for a parse failure, and is the
\* Display rendering of the GetDogsError.
C5_MessagePrefixes ==
    \A i \in 1..Len(stderr) :
        /\ IsErr(result, "BadFile") => stderr[i].prefix = "bad file: "
        /\ IsErr(result, "BadJson") => stderr[i].prefix = "bad JSON: "
        /\ stderr[i] = fmt(result.err)

\* How far main is.
Rank(p) ==
    CASE p = "start" -> 0 [] p = "parse" -> 1 [] p = "report" -> 2 [] p = "done" -> 3
\* Main has a step to take: the guard of one of its steps holds.
CanStep ==
    \/ CanReadOk \/ CanReadErr
    \/ CanParseOk \/ CanParseErr
    \/ CanReportDogs \/ CanReportBadFile \/ CanReportBadJson

\* C6: every run of main ends, having made exactly one report, on standard
\* output or on standard error, after at most one read and at most one parse
\* (no parse after a failed read); nothing follows the report.  Main ends
\* because every step takes it further, and until it is done it has a step
\* to take.
C6_OneReportThenExit ==
    /\ [][Rank(pc') > Rank(pc)]_vars
    /\ [](pc # "done" => CanStep)
    /\ [](/\ Len(stdout) + Len(stderr) <= 1
          /\ reads <= 1
          /\ parses <= 1
          /\ IsErr(result, "BadFile") => parses = 0)
    /\ [](pc = "done" => Len(stdout) + Len(stderr) = 1 /\ ~CanStep)

\* A run that ended on a parse failure: one read, one parse, one line.
C6_Witness ==
    /\ pc = "done"
    /\ reads = 1
    /\ parses = 1
    /\ stdout = <<>>
    /\ Len(stderr) = 1

\* C7: get_dogs2 and get_dogs3 return the same: both Ok with the same
\* collection, or both Err with the same variant around the same error.
C7_Dogs2EqualsDogs3 ==
    LET r2 == get_dogs2(file)
        r3 == get_dogs3(file)
    IN
    /\ r2.tag = r3.tag
    /\ r2.tag = "Ok" => r2.val = r3.val
    /\ r2.tag = "Err" => r2.err.tag = r3.err.tag /\ r2.err.e = r3.err.e
    /\ Returned => result = r2

\* Main's call returned BadJson, and get_dogs2 returns the same.
C7_Witness ==
    /\ pc = "report"
    /\ IsErr(result, "BadJson")
    /\ get_dogs2(file) = result
    /\ result.err.e.code = "MissingField_breed"

\* C8: the error of get_dogs2 or get_dogs3 wraps the lower-level error as it
\* was: source() is Some, of the failed read's I/O error for BadFile and of
\* the failed parse's serde_json error for BadJson.
C8_SourceIsTheCause ==
    \A r \in {get_dogs2(file), get_dogs3(file)} \cup (IF Returned THEN {result} ELSE {}) :
        r.tag = "Err" =>
            /\ source(r.err).some
            /\ r.err.tag \in {"BadFile", "BadJson"}
            /\ r.err.tag = "BadFile" =>
                  /\ ~Readable
                  /\ source(r.err).v = read_to_string(file).err
                  /\ source(r.err).v.type = "io"
            /\ r.err.tag = "BadJson" =>
                  /\ Readable
                  /\ source(r.err).v = from_str(file.content).err
                  /\ source(r.err).v.type = "json"

\* A returned BadJson whose source is the duplicate-field error of the parse.
C8_Witness ==
    /\ Returned
    /\ IsErr(result, "BadJson")
    /\ source(result.err) = Some(from_str(json).err)
    /\ source(result.err).v.code = "DuplicateField_name"

\* C9: get_dogs1 returns Ok exactly when get_dogs3 does, with the same
\* collection, and otherwise boxes an I/O error exactly when get_dogs3
\* returns BadFile and a serde_json error exactly when it returns BadJson.
C9_Dogs1AgreesWithDogs3 ==
    LET r1 == get_dogs1(file)
        r3 == get_dogs3(file)
    IN
    /\ r1.tag = r3.tag
    /\ r1.tag = "Ok" => r1.val = r3.val
    /\ r1.tag = "Err" =>
          /\ downcast_ref(r1.err, "io").some <=> r3.err.tag = "BadFile"
          /\ downcast_ref(r1.err, "json").some <=> r3.err.tag = "BadJson"
          /\ downcast_ref(r1.err, "io").some \/ downcast_ref(r1.err, "json").some
          /\ r1.err.boxed = r3.err.e
    /\ Returned => result = r3

\* A file that is not UTF-8: main's call returned BadFile, get_dogs1 boxes
\* the I/O error.
C9_Witness ==
    /\ Returned
    /\ file.kind = "InvalidData"
    /\ IsErr(result, "BadFile")
    /\ downcast_ref(get_dogs1(file).err, "io") = Some(IoError("InvalidData"))

AllText(r) ==
    r.tag = "Ok" =>
        \A i \in 1..Len(r.val) :
            /\ DOMAIN r.val[i] = {"name", "breed"}
            /\ r.val[i].name \in Text
            /\ r.val[i].breed \in Text

\* C10 as stated: every record of an Ok has a name and a breed that are
\* text; and a JSON array with any element that lacks either field, or has a
\* value for it that is no string, is a BadJson, with nothing printed.
C10_AllOrNothing ==
    LET d == Document(file.content) IN
    Returned =>
        /\ AllText(get_dogs3(file))
        /\ AllText(result)
        /\ (Readable /\ d.k = "arr" /\ \E e \in Elems(d) : Defective(e)) =>
              /\ IsErr(get_dogs3(file), "BadJson")
              /\ IsErr(result, "BadJson")
              /\ stdout = <<>>

\* C10 amended: every record of an Ok has a name and a breed that are text;
\* and a JSON array with any element that is no [name, breed] array of two
\* strings and lacks either field, or has a value for it that is no string,
\* is a BadJson, with nothing printed.
C10_AllOrNothingButPairs ==
    LET d == Document(file.content) IN
    /\ AllText(get_dogs3(file))
    /\ Returned => AllText(result)
    /\ (Readable /\ d.k = "arr" /\ \E e \in Elems(d) : ~IsDogPair(e) /\ Defective(e)) =>
          /\ IsErr(get_dogs3(file), "BadJson")
          /\ Returned => IsErr(result, "BadJson")
          /\ stdout = <<>>

\* A good dog followed by an object whose breed is a number: BadJson, and
\* the good dog is not printed.
C10_Witness ==
    LET d == Document(file.content) IN
    /\ pc = "done"
    /\ Readable
    /\ d.k = "arr"
    /\ Len(d.items) = 2
    /\ IsPlainDogObject(d.items[1])
    /\ HasNonString(d.items[2], "breed")
    /\ HasStringField(d.items[2], "name")
    /\ IsErr(result, "BadJson")
    /\ stdout = <<>>

=============================================================================
